---- MODULE Spec2Model ----
(***************************************************************************)
(* Model of the bilibili open-live client (src/client.go): the frame codec *)
(* (writeWsProtoMsg / parseWsProtoMsg), the streaming connection           *)
(* (liveWebsocketClient: connect, Close, internalClose, readLoop,          *)
(* eventLoop, the senders and the handlers) and the facade (LiveClient:    *)
(* Connect, connectWs, onWsClose, Disconnect, IsActive, and what its calls *)
(* to the bootstrap service, callAppStart and callAppEnd, leave behind).   *)
(*                                                                         *)
(* Goroutines are threads with a program counter.  A step is one access to *)
(* a field another goroutine may touch, so the unsynchronised accesses of  *)
(* the source interleave.  A Go runtime panic (nil dereference, slice out  *)
(* of range) in any goroutine ends the process: crashed.                   *)
(***************************************************************************)
EXTENDS Integers, Sequences, FiniteSets, TLC

VARIABLES
    pc,          \* thread -> label: the goroutine's position
    stk,         \* thread -> stack of call frames [obj, err, ret]
    ret,         \* thread -> what the last finished call or send returned
    myseq,       \* thread -> SequenceID read by createMsg (msg.SequenceID)
    msg,         \* thread -> frame held by the read loop / dispatch loop
    mu,          \* LiveClient.mu: None or the thread holding it
    clientState, \* LiveClient.clientState
    wsClient,    \* LiveClient.wsClient: 0 (nil) or a connection object
    nConns,      \* connection objects constructed so far
    ws,          \* object -> the fields of liveWebsocketClient
    tr,          \* object -> the transport behind ws[o].conn
    sent,        \* object -> frames written to the transport, in write order
    notifs,      \* object -> reasons onClose was invoked with, in order
    crashed,     \* a goroutine panicked
    svc,         \* the bootstrap service: what it answers to a session start
    gameID,      \* LiveClient.gameID
    wsInfo,      \* LiveClient.wsInfo.WSSLink
    startCalled, \* the Connect call under way has called callAppStart
    appEnd,      \* session-end requests the bootstrap service has received
    userClose,   \* errors the user's OnClose was invoked with, in order
    danmaku,     \* object -> events handed to onDanmaku by the dispatch at hand
    order,       \* when order.on: per object, the frames the peer has sent
                 \* (n), the SequenceIDs decoded by the read loop (rcvd) and
                 \* those given to a handler (handled), in order
    cstage,      \* codec harness: position
    cin,         \* codec harness: the input (a frame or a buffer)
    cout         \* codec harness: the result

vars == <<pc, stk, ret, myseq, msg, mu, clientState, wsClient, nConns, ws, tr,
          sent, notifs, crashed, svc, gameID, wsInfo, startCalled, appEnd,
          userClose, danmaku, order, cstage, cin, cout>>

connVars == <<pc, stk, ret, myseq, msg, mu, clientState, wsClient, nConns, ws,
              tr, sent, notifs, crashed, svc, gameID, wsInfo, startCalled,
              appEnd, userClose, danmaku, order>>

codecVars == <<cstage, cin, cout>>

----------------------------------------------------------------------------
(* Bounds of the model *)

\* heartbeats stop being drawn once c.seqID has reached MaxSeq
MaxSeq == 3

\* where the order of the frames is recorded, the peer sends MaxFrames frames
MaxFrames == 3

----------------------------------------------------------------------------
(* Fixed-width integers: encoding/binary and Go's integer conversions *)

MaxInt32 == 2147483647
MinInt32 == -MaxInt32 - 1

\* int32(x) for x within one wrap of the int32 range
WrapInt32(x) ==
    IF x > MaxInt32 THEN MinInt32 + (x - MaxInt32 - 1) ELSE x

\* int16(x) for a 16-bit unsigned x
WrapInt16(x) == IF x >= 32768 THEN x - 65536 ELSE x

\* binary.Write(w, binary.BigEndian, x) for an int32: the two's complement of
\* x, most significant byte first
PutBE32(x) ==
    LET low == IF x >= 0 THEN x ELSE x - MinInt32   \* the low 31 bits
        b1  == (low \div 16777216) + (IF x >= 0 THEN 0 ELSE 128)
    IN  << b1, (low \div 65536) % 256, (low \div 256) % 256, low % 256 >>

\* binary.Write(w, binary.BigEndian, x) for an int16
PutBE16(x) ==
    LET u == x % 65536
    IN  << u \div 256, u % 256 >>

\* int32(binary.BigEndian.Uint32(b)): the first 4 bytes of b as an int32
Int32BE(b) ==
    IF b[1] >= 128
    THEN MinInt32 + ((b[1] - 128) * 16777216 + b[2] * 65536 + b[3] * 256 + b[4])
    ELSE b[1] * 16777216 + b[2] * 65536 + b[3] * 256 + b[4]

\* int16(binary.BigEndian.Uint16(b)): the first 2 bytes of b as an int16
Int16BE(b) == WrapInt16(b[1] * 256 + b[2])

\* buf[lo:hi] of a Go slice, 0-based and half-open, as a sequence
Slice(buf, lo, hi) == SubSeq(buf, lo + 1, hi)

----------------------------------------------------------------------------
(* The wire format: constants of the protocol *)

wsProtoMaxBodySize == 2048
wsProtoPackSize == 4
wsProtoHeaderSize == 2
wsProtoVerSize == 2
wsProtoOperationSize == 4
wsProtoSeqIdSize == 4
wsProtoRawHeaderSize ==
    wsProtoPackSize + wsProtoHeaderSize + wsProtoVerSize
        + wsProtoOperationSize + wsProtoSeqIdSize
wsProtoMaxPackSize == wsProtoMaxBodySize + wsProtoRawHeaderSize
wsProtoPackOffset == 0
wsProtoHeaderOffset == wsProtoPackOffset + wsProtoPackSize
wsProtoVerOffset == wsProtoHeaderOffset + wsProtoHeaderSize
wsProtoOperationOffset == wsProtoVerOffset + wsProtoVerSize
wsProtoSeqIdOffset == wsProtoOperationOffset + wsProtoOperationSize

wsProtoOpHeartbeat == 2
wsProtoOpHeartbeatReply == 3
wsProtoOpSendMsgReply == 5
wsProtoOpAuth == 7
wsProtoOpAuthReply == 8

\* wsProtoMsg
WsProtoMsg(ver, op, seq, body) ==
    [Version |-> ver, Operation |-> op, SequenceID |-> seq, Body |-> body]

\* Faulty variant of writeWsProtoMsg: the packet length leaves the header out
writeWsProtoMsg_NoHeaderInLength(p) ==
    PutBE32(WrapInt32(Len(p.Body))) \o PutBE16(wsProtoRawHeaderSize)
        \o PutBE16(p.Version) \o PutBE32(p.Operation) \o PutBE32(p.SequenceID)
        \o p.Body

\* writeWsProtoMsg: the bytes written to w, in order
writeWsProtoMsg(p) ==
    LET packSize == WrapInt32(wsProtoRawHeaderSize + Len(p.Body))
    IN  PutBE32(packSize) \o PutBE16(wsProtoRawHeaderSize) \o PutBE16(p.Version)
            \o PutBE32(p.Operation) \o PutBE32(p.SequenceID) \o p.Body

\* parseWsProtoMsg.  The header fields are sliced out of buf before any length
\* check; buf[wsProtoSeqIdOffset:] and Uint32 of it need 16 bytes, so a shorter
\* buffer panics (slice bounds / index out of range).
parseWsProtoMsg(buf) ==
    IF Len(buf) < wsProtoSeqIdOffset + wsProtoSeqIdSize
    THEN [status |-> "panic", err |-> "index out of range"]
    ELSE
      LET packSize ==
              Int32BE(Slice(buf, wsProtoPackOffset, wsProtoHeaderOffset))
          headerLength ==
              Int16BE(Slice(buf, wsProtoHeaderOffset, wsProtoVerOffset))
          version ==
              Int16BE(Slice(buf, wsProtoVerOffset, wsProtoOperationOffset))
          operation ==
              Int32BE(Slice(buf, wsProtoOperationOffset, wsProtoSeqIdOffset))
          sequenceID ==
              Int32BE(Slice(buf, wsProtoSeqIdOffset, Len(buf)))
          bodySize == packSize - headerLength
      IN  IF packSize < 0 \/ packSize > wsProtoMaxPackSize
          THEN [status |-> "err", err |-> "invalid pack size"]
          ELSE IF Len(buf) < packSize
          THEN [status |-> "err", err |-> "buffer smaller than packet size"]
          ELSE IF headerLength # wsProtoRawHeaderSize
          THEN [status |-> "err", err |-> "unsupported header size"]
          ELSE IF bodySize <= 0
          THEN [status |-> "err", err |-> "invalid body size"]
          ELSE [status |-> "ok",
                p |-> WsProtoMsg(version, operation, sequenceID,
                                 Slice(buf, headerLength, packSize))]

----------------------------------------------------------------------------
(* Frame bodies.  The JSON text is carried as bytes; jsoniter is modelled   *)
(* by what it returns for the texts the peer sends here.                    *)

\* {"code":0}
BodyAuthOk == <<123, 34, 99, 111, 100, 101, 34, 58, 48, 125>>
\* {"code":1}
BodyAuthRejected == <<123, 34, 99, 111, 100, 101, 34, 58, 49, 125>>
\* {}  (no "code" member: the field keeps its zero value)
BodyEmptyObject == <<123, 125>>
\* {"code"   (truncated text)
BodyTruncated == <<123, 34, 99, 111, 100, 101, 34>>
\* {"cmd":"X"}
BodyOtherCmd == <<123, 34, 99, 109, 100, 34, 58, 34, 88, 34, 125>>

\* {"cmd":"LIVE_OPEN_PLATFORM_DM",
\*  "data":{"uid":123,"uname":"alice","msg":"hello"}}
BodyDm ==
    <<123, 34, 99, 109, 100, 34, 58, 34, 76, 73, 86, 69, 95, 79, 80, 69, 78,
      95, 80, 76, 65, 84, 70, 79, 82, 77, 95, 68, 77, 34, 44, 34, 100, 97, 116,
      97, 34, 58, 123, 34, 117, 105, 100, 34, 58, 49, 50, 51, 44, 34, 117, 110,
      97, 109, 101, 34, 58, 34, 97, 108, 105, 99, 101, 34, 44, 34, 109, 115,
      103, 34, 58, 34, 104, 101, 108, 108, 111, 34, 125, 125>>

CmdLiveOpenPlatformDm == "LIVE_OPEN_PLATFORM_DM"

\* a Danmaku whose other fields keep their zero values
Danmaku(uid, uname, message) ==
    [Timestamp |-> 0, RoomID |-> 0, UID |-> uid, Username |-> uname,
     UserFace |-> "", Admin |-> 0, Vip |-> 0, SVip |-> 0, MsgType |-> 0,
     DMType |-> 0, Message |-> message, MessageID |-> "", EmojiImgUrl |-> "",
     FansMedalLevel |-> 0, FansMedalName |-> "",
     FansMedalWearingStatus |-> FALSE]

\* jsoniter.Get(msg.Body, "cmd").ToString(): "" when there is no such member
GetCmd(body) ==
    IF body = BodyDm THEN CmdLiveOpenPlatformDm
    ELSE IF body = BodyOtherCmd THEN "X"
    ELSE ""

\* jsoniter.Get(msg.Body, "data") with ToVal(&dm) and LastError()
GetData(body) ==
    IF body = BodyDm THEN [err |-> FALSE, dm |-> Danmaku(123, "alice", "hello")]
    ELSE [err |-> TRUE, dm |-> Danmaku(0, "", "")]

\* jsoniter.Unmarshal(msg.Body, &rsp) for rsp of type wsAuthResponse
UnmarshalAuthResponse(body) ==
    IF body = BodyAuthOk THEN [err |-> FALSE, Code |-> 0]
    ELSE IF body = BodyAuthRejected THEN [err |-> FALSE, Code |-> 1]
    ELSE IF body = BodyEmptyObject THEN [err |-> FALSE, Code |-> 0]
    ELSE [err |-> TRUE, Code |-> 0]

\* What conn.Read can hand to the read loop: well-formed frames of every
\* operation, a frame whose header length is wrong, and a message shorter
\* than a header.  The peer writes sq into the SequenceID of its frames.
InboundBufsAt(sq) ==
    { writeWsProtoMsg(WsProtoMsg(0, wsProtoOpAuthReply, sq, BodyAuthOk)),
      writeWsProtoMsg(WsProtoMsg(0, wsProtoOpAuthReply, sq, BodyAuthRejected)),
      writeWsProtoMsg(WsProtoMsg(0, wsProtoOpAuthReply, sq, BodyTruncated)),
      writeWsProtoMsg(WsProtoMsg(0, wsProtoOpHeartbeatReply, sq, <<0, 0, 0, 1>>)),
      writeWsProtoMsg(WsProtoMsg(0, wsProtoOpSendMsgReply, sq, BodyOtherCmd)),
      writeWsProtoMsg(WsProtoMsg(0, wsProtoOpSendMsgReply, sq, BodyDm)),
      writeWsProtoMsg(WsProtoMsg(0, wsProtoOpAuth, sq, BodyEmptyObject)),
      <<0, 0, 0, 18, 0, 12, 0, 0, 0, 0, 0, 8, 0, 0, 0, 0, 123, 125>>,
      <<0, 0, 0, 2>> }

InboundBufs == InboundBufsAt(0)

----------------------------------------------------------------------------
(* Threads and objects *)

\* the connection objects a LiveClient can construct, one per session the
\* bootstrap service grants (svc.sessions)
Conns == {1, 2}

Caller == <<"U", 1>>
Callers == {Caller}
R(k) == <<"R", k>>
E(k) == <<"E", k>>
Threads == Callers \cup {R(k) : k \in Conns} \cup {E(k) : k \in Conns}
Closers == Callers \cup {R(k) : k \in Conns}
Senders == Callers \cup {E(k) : k \in Conns}

None == <<"none", 0>>

\* websocketClientState
websocketClientStateIdle == "Idle"
websocketClientStateAuth == "Auth"
websocketClientStateActive == "Active"

\* clientState
clientStateIdle == "idle"
clientStateActive == "active"

\* A liveWebsocketClient as the composite literal leaves it (zero values);
\* conn, loopCancel, onDanmaku: TRUE when the field is not nil.  The user has
\* registered the callbacks.
NewWsClient(handler, link) ==
    [url |-> link, state |-> websocketClientStateIdle, conn |-> FALSE,
     seqID |-> 0, ticker |-> "nil", loopCancel |-> FALSE, ctx |-> "none",
     onDanmaku |-> TRUE, onClose |-> handler, spawned |-> FALSE]

NoMsg == WsProtoMsg(0, 0, 0, <<>>)

Frame(o, e, r) == [obj |-> o, err |-> e, ret |-> r]
Top(t) == Head(stk[t])
Goto(t, l) == pc' = [pc EXCEPT ![t] = l]
Push(t, f) == stk' = [stk EXCEPT ![t] = <<f>> \o @]
\* return to the caller of the current frame
Return(t) ==
    /\ pc' = [pc EXCEPT ![t] = Top(t).ret]
    /\ stk' = [stk EXCEPT ![t] = Tail(@)]

\* c.seqID++ on an int32
IncSeq(n) == IF n = MaxInt32 THEN MinInt32 ELSE n + 1

facadeVars == <<mu, clientState, wsClient, nConns>>
wsVars == <<ws, tr, sent, notifs>>
locVars == <<ret, myseq, msg>>
apiVars == <<svc, gameID, wsInfo, startCalled, appEnd>>
cbVars == <<userClose, danmaku, order>>

\* a runtime panic in goroutine t: the process ends where it stands
Panic(t) ==
    /\ crashed' = TRUE
    /\ UNCHANGED <<pc, stk, locVars, facadeVars, wsVars, apiVars, cbVars,
                   codecVars>>

\* what a call returned: the function and its error ("nil" for none)
Ret(f, e) == [of |-> f, err |-> e]
NoRet == Ret("", "")
SetRet(t, f, e) == ret' = [ret EXCEPT ![t] = Ret(f, e)]

----------------------------------------------------------------------------
(* liveWebsocketClient.connect *)

\* Faulty variant of connectRefused: connect never refuses
connectRefused_Never(st) == FALSE

\* connect, line 275: if c.state != websocketClientStateIdle
connectRefused(st) == st # websocketClientStateIdle

\* sendAuth, line 422: if c.state != websocketClientStateAuth
sendAuthSkipped(st) == st # websocketClientStateAuth

\* Faulty variant of sendHeartbeatSkipped: only the Idle state skips
sendHeartbeatSkipped_OnlyIdle(st) == st = websocketClientStateIdle

\* sendHeartbeat, line 414: if c.state != websocketClientStateActive
sendHeartbeatSkipped(st) == st # websocketClientStateActive

\* Close, line 314: if c.conn == nil
closeSkipped(conn) == ~conn

\* connect, lines 275-302: the state check, the dial, the fields, the loops.
\* An object is connected once: LiveClient constructs a new one for every
\* connect (connectWs, lines 104-110), so the loops of a second connect on a
\* closed object are not part of this model.
connect(t) ==
    LET o == Top(t).obj IN
    /\ pc[t] = "co_chk"
    /\ ~crashed
    /\ IF connectRefused(ws[o].state)
       THEN /\ SetRet(t, "connect", "errState")
            /\ Return(t)
            /\ UNCHANGED <<ws, tr>>
       ELSE \E dialed \in BOOLEAN :
              /\ ~(ws[o].spawned /\ ws[o].state = websocketClientStateIdle)
              /\ IF ~dialed
                 THEN /\ SetRet(t, "connect", "errDial")
                      /\ Return(t)
                      /\ UNCHANGED <<ws, tr>>
                 ELSE /\ ws' = [ws EXCEPT ![o] =
                                  [@ EXCEPT !.conn = TRUE, !.seqID = 0,
                                            !.state = websocketClientStateAuth,
                                            !.ctx = "live", !.loopCancel = TRUE,
                                            !.ticker = "on", !.spawned = TRUE]]
                      /\ tr' = [tr EXCEPT ![o] = "open"]
                      /\ pc' = [pc EXCEPT ![t] = "sa_chk",
                                          ![R(o)] = "rl_chk",
                                          ![E(o)] = "el_enter"]
                      /\ UNCHANGED <<stk, ret>>
    /\ UNCHANGED <<myseq, msg, facadeVars, sent, notifs, crashed, apiVars, cbVars, codecVars>>

\* sendAuth: the state check (line 422), then createMsg's read of c.seqID
sendAuth(t) ==
    LET o == Top(t).obj IN
    /\ pc[t] = "sa_chk"
    /\ ~crashed
    /\ IF sendAuthSkipped(ws[o].state)
       THEN /\ SetRet(t, "connect", "nil")
            /\ Return(t)
            /\ UNCHANGED myseq
       ELSE /\ myseq' = [myseq EXCEPT ![t] = ws[o].seqID]
            /\ Goto(t, "sa_inc")
            /\ UNCHANGED <<stk, ret>>
    /\ UNCHANGED <<msg, facadeVars, wsVars, crashed, apiVars, cbVars, codecVars>>

\* createMsg, line 400: c.seqID++
createMsg(t) ==
    LET o == IF t \in Callers THEN Top(t).obj ELSE t[2] IN
    /\ pc[t] \in {"sa_inc", "hb_inc"}
    /\ ~crashed
    /\ ws' = [ws EXCEPT ![o].seqID = IncSeq(@)]
    /\ Goto(t, IF pc[t] = "sa_inc" THEN "sa_wr" ELSE "hb_wr")
    /\ UNCHANGED <<stk, locVars, facadeVars, tr, sent, notifs, crashed,
                   apiVars, cbVars, codecVars>>

\* writeMsg: c.conn.Writer on a nil conn panics; on a closed transport it
\* fails; otherwise the frame goes out.  The result is what the sender returns.
writeMsg(t) ==
    LET o  == IF t \in Callers THEN Top(t).obj ELSE t[2]
        op == IF pc[t] = "sa_wr" THEN wsProtoOpAuth ELSE wsProtoOpHeartbeat
        f  == IF pc[t] = "sa_wr" THEN "connect" ELSE "sendHeartbeat"
    IN
    /\ pc[t] \in {"sa_wr", "hb_wr"}
    /\ ~crashed
    /\ IF ~ws[o].conn
       THEN Panic(t)
       ELSE /\ IF tr[o] = "open"
               THEN /\ sent' = [sent EXCEPT ![o] =
                                  Append(@, [op |-> op, seq |-> myseq[t]])]
                    /\ SetRet(t, f, "nil")
               ELSE /\ SetRet(t, f, "errWrite")
                    /\ UNCHANGED sent
            /\ IF pc[t] = "sa_wr"
               THEN Return(t)
               ELSE Goto(t, "el_enter") /\ UNCHANGED stk
            /\ myseq' = [myseq EXCEPT ![t] = 0]
            /\ UNCHANGED <<msg, facadeVars, ws, tr, notifs, crashed, apiVars, cbVars, codecVars>>

----------------------------------------------------------------------------
(* liveWebsocketClient.Close and internalClose *)

\* Close, lines 314-316: nothing to do without a conn
Close(t) ==
    LET o == Top(t).obj IN
    /\ pc[t] = "cl_chk"
    /\ ~crashed
    /\ IF closeSkipped(ws[o].conn)
       THEN SetRet(t, "Close", "nil") /\ Return(t)
       ELSE Goto(t, "cl_conn") /\ UNCHANGED <<stk, ret>>
    /\ UNCHANGED <<myseq, msg, facadeVars, wsVars, crashed, apiVars, cbVars, codecVars>>

\* Close, line 318: c.conn.Close(StatusNormalClosure).  c.conn is read again:
\* when it was set to nil since the check, the call panics unless the build
\* kept the pointer it had loaded.  The deferred internalClose(nil) follows.
\* A transport the peer closed or the network broke keeps reporting that.
connClose(t) ==
    LET o == Top(t).obj IN
    /\ pc[t] = "cl_conn"
    /\ ~crashed
    /\ \/ /\ ~ws[o].conn
          /\ Panic(t)
       \/ /\ tr' = [tr EXCEPT ![o] = IF @ = "open" THEN "closed" ELSE @]
          /\ Goto(t, "ic1")
          /\ UNCHANGED <<stk, locVars, facadeVars, ws, sent, notifs, crashed, apiVars, cbVars, codecVars>>

\* internalClose, line 326: if c.loopCancel != nil
icCheckCancel(t) ==
    LET o == Top(t).obj IN
    /\ pc[t] = "ic1"
    /\ ~crashed
    /\ Goto(t, IF ws[o].loopCancel THEN "ic1b" ELSE "ic2")
    /\ UNCHANGED <<stk, locVars, facadeVars, wsVars, crashed, apiVars, cbVars, codecVars>>

\* internalClose, lines 327-328: c.loopCancel(); c.loopCancel = nil.  The call
\* reads the field again: nil by now (another closer) is a nil func call.
icCancel(t) ==
    LET o == Top(t).obj IN
    /\ pc[t] = "ic1b"
    /\ ~crashed
    /\ \/ /\ ~ws[o].loopCancel
          /\ Panic(t)
       \/ /\ ws' = [ws EXCEPT ![o] = [@ EXCEPT !.ctx = "cancelled",
                                                !.loopCancel = FALSE]]
          /\ Goto(t, "ic2")
          /\ UNCHANGED <<stk, locVars, facadeVars, tr, sent, notifs, crashed, apiVars, cbVars, codecVars>>

\* internalClose, line 330: if c.heartbeatTicker != nil
icCheckTicker(t) ==
    LET o == Top(t).obj IN
    /\ pc[t] = "ic2"
    /\ ~crashed
    /\ Goto(t, IF ws[o].ticker # "nil" THEN "ic2b" ELSE "ic3")
    /\ UNCHANGED <<stk, locVars, facadeVars, wsVars, crashed, apiVars, cbVars, codecVars>>

\* internalClose, lines 331-332: c.heartbeatTicker.Stop(); = nil
icStopTicker(t) ==
    LET o == Top(t).obj IN
    /\ pc[t] = "ic2b"
    /\ ~crashed
    /\ \/ /\ ws[o].ticker = "nil"
          /\ Panic(t)
       \/ /\ ws' = [ws EXCEPT ![o].ticker = "nil"]
          /\ Goto(t, "ic3")
          /\ UNCHANGED <<stk, locVars, facadeVars, tr, sent, notifs, crashed, apiVars, cbVars, codecVars>>

\* internalClose, lines 334-335: c.state = Idle; c.conn = nil
icReset(t) ==
    LET o == Top(t).obj IN
    /\ pc[t] = "ic3"
    /\ ~crashed
    /\ ws' = [ws EXCEPT ![o] = [@ EXCEPT !.state = websocketClientStateIdle,
                                         !.conn = FALSE]]
    /\ Goto(t, "ic4")
    /\ UNCHANGED <<stk, locVars, facadeVars, tr, sent, notifs, crashed,
                   apiVars, cbVars, codecVars>>

\* internalClose, lines 336-338: c.onClose(err).  The facade's handler is
\* onWsClose, which starts with Disconnect (line 120); any other handler
\* returns at once.
icNotify(t) ==
    LET o == Top(t).obj
        e == Top(t).err
    IN
    /\ pc[t] = "ic4"
    /\ ~crashed
    /\ notifs' = [notifs EXCEPT ![o] = Append(@, e)]
    /\ IF ws[o].onClose = "onWsClose"
       THEN /\ Push(t, Frame(0, e, "owc_cb"))
            /\ Goto(t, "Disc_lock")
            /\ UNCHANGED ret
       ELSE /\ SetRet(t, "internalClose", e)
            /\ Return(t)
    /\ UNCHANGED <<myseq, msg, facadeVars, ws, tr, sent, crashed, apiVars, cbVars, codecVars>>

----------------------------------------------------------------------------
(* readLoop *)

\* readLoop, lines 344-347: leave when the conn is gone
rlCheck(k) ==
    /\ pc[R(k)] = "rl_chk"
    /\ ~crashed
    /\ Goto(R(k), IF ws[k].conn THEN "rl_read" ELSE "exit")
    /\ ret' = [ret EXCEPT ![R(k)] = NoRet]
    /\ UNCHANGED <<stk, myseq, msg, facadeVars, wsVars, crashed, apiVars, cbVars,
                   codecVars>>

\* readLoop, line 348 with c.conn nil by now: the call not yet made panics;
\* a call already blocked inside Read returns the close error (rlClosed).
rlReadNil(k) ==
    /\ pc[R(k)] = "rl_read"
    /\ ~crashed
    /\ ~ws[k].conn
    /\ Panic(R(k))

\* readLoop, lines 348-354: Read fails with a close status; internalClose(err)
rlClosed(k) ==
    /\ pc[R(k)] = "rl_read"
    /\ ~crashed
    /\ tr[k] \in {"closed", "peerClosed"}
    /\ Push(R(k), Frame(k, "closeErr", "exit"))
    /\ Goto(R(k), "ic1")
    /\ UNCHANGED <<locVars, facadeVars, wsVars, crashed, apiVars, cbVars, codecVars>>

\* readLoop, lines 348 and 358-364: a message arrives and is parsed; a parse
\* error is logged and skipped, a frame goes on to the send on eventCh
rlRead(k) ==
    /\ pc[R(k)] = "rl_read"
    /\ ~crashed
    /\ ws[k].conn
    /\ tr[k] = "open"
    /\ order.on => order.n[k] < MaxFrames
    /\ \E buf \in (IF order.on THEN InboundBufsAt(order.n[k]) ELSE InboundBufs) :
         LET r == parseWsProtoMsg(buf) IN
         /\ order' = IF ~order.on THEN order
                     ELSE [order EXCEPT
                             !.n[k] = @ + 1,
                             !.rcvd[k] = IF r.status = "ok"
                                         THEN Append(@, r.p.SequenceID) ELSE @]
         /\ CASE r.status = "panic" ->
                   /\ crashed' = TRUE
                   /\ SetRet(R(k), "parseWsProtoMsg", "panic")
                   /\ UNCHANGED <<pc, msg>>
              [] r.status = "err" ->
                   /\ Goto(R(k), "rl_chk")
                   /\ SetRet(R(k), "parseWsProtoMsg", r.err)
                   /\ UNCHANGED <<msg, crashed>>
              [] r.status = "ok" ->
                   /\ msg' = [msg EXCEPT ![R(k)] = r.p]
                   /\ Goto(R(k), "rl_send")
                   /\ SetRet(R(k), "parseWsProtoMsg", "nil")
                   /\ UNCHANGED crashed
    /\ UNCHANGED <<stk, myseq, facadeVars, wsVars, apiVars, userClose, danmaku,
                   codecVars>>

\* readLoop, lines 348-357: Read fails without a close status (the network
\* failed, websocket.CloseStatus(err) is -1): the error is logged and the loop
\* goes on
rlReadErr(k) ==
    /\ pc[R(k)] = "rl_read"
    /\ ~crashed
    /\ tr[k] = "broken"
    /\ Goto(R(k), "rl_chk")
    /\ SetRet(R(k), "Read", "errRead")
    /\ UNCHANGED <<stk, myseq, msg, facadeVars, wsVars, crashed, apiVars, cbVars,
                   codecVars>>

\* the network under the transport fails: from now on every write and every
\* read fails, without a close status
Break(k) ==
    /\ ~crashed
    /\ tr[k] = "open"
    /\ tr' = [tr EXCEPT ![k] = "broken"]
    /\ UNCHANGED <<pc, stk, locVars, facadeVars, ws, sent, notifs, crashed,
                   apiVars, cbVars, codecVars>>

\* the peer ends the connection with a close frame
PeerClose(k) ==
    /\ ~crashed
    /\ tr[k] = "open"
    /\ tr' = [tr EXCEPT ![k] = "peerClosed"]
    /\ UNCHANGED <<pc, stk, locVars, facadeVars, ws, sent, notifs, crashed, apiVars, cbVars, codecVars>>

----------------------------------------------------------------------------
(* eventLoop *)

\* eventLoop, lines 371-374: entering the select evaluates c.loopCtx.Done()
\* and c.heartbeatTicker.C; a nil ticker is a nil dereference
elEnter(k) ==
    /\ pc[E(k)] = "el_enter"
    /\ ~crashed
    /\ IF ws[k].ticker = "nil"
       THEN Panic(E(k))
       ELSE /\ Goto(E(k), "el_wait")
            /\ ret' = [ret EXCEPT ![E(k)] = NoRet]
            /\ danmaku' = [danmaku EXCEPT ![k] = <<>>]
            /\ UNCHANGED <<stk, myseq, msg, facadeVars, wsVars, crashed, apiVars,
                           userClose, order, codecVars>>

\* eventLoop, lines 372-373: case <-c.loopCtx.Done()
elDone(k) ==
    /\ pc[E(k)] = "el_wait"
    /\ ~crashed
    /\ ws[k].ctx = "cancelled"
    /\ Goto(E(k), "exit")
    /\ UNCHANGED <<stk, locVars, facadeVars, wsVars, crashed, apiVars, cbVars, codecVars>>

\* eventLoop, lines 374-375 and sendHeartbeat, lines 414-417: a tick; without
\* the Active state nothing is sent, otherwise createMsg reads c.seqID
elTick(k) ==
    /\ pc[E(k)] = "el_wait"
    /\ ~crashed
    /\ ws[k].seqID < MaxSeq
    /\ IF sendHeartbeatSkipped(ws[k].state)
       THEN /\ SetRet(E(k), "sendHeartbeat", "nil")
            /\ Goto(E(k), "el_enter")
            /\ UNCHANGED myseq
       ELSE /\ myseq' = [myseq EXCEPT ![E(k)] = ws[k].seqID]
            /\ Goto(E(k), "hb_inc")
            /\ UNCHANGED ret
    /\ UNCHANGED <<stk, msg, facadeVars, wsVars, crashed, apiVars, cbVars, codecVars>>

\* Faulty variant of elRecv: the sender keeps the frame and sends it again
elRecv_SendsAgain(k) ==
    /\ pc[E(k)] = "el_wait"
    /\ pc[R(k)] = "rl_send"
    /\ ~crashed
    /\ msg' = [msg EXCEPT ![E(k)] = msg[R(k)]]
    /\ pc' = [pc EXCEPT ![E(k)] = "el_disp"]
    /\ UNCHANGED <<stk, ret, myseq, facadeVars, wsVars, crashed, apiVars, cbVars,
                   codecVars>>

\* eventLoop, line 378 with readLoop, line 364: the unbuffered eventCh hands
\* the frame over when both sides are there
elRecv(k) ==
    /\ pc[E(k)] = "el_wait"
    /\ pc[R(k)] = "rl_send"
    /\ ~crashed
    /\ msg' = [msg EXCEPT ![E(k)] = msg[R(k)], ![R(k)] = NoMsg]
    /\ pc' = [pc EXCEPT ![E(k)] = "el_disp", ![R(k)] = "rl_chk"]
    /\ UNCHANGED <<stk, ret, myseq, facadeVars, wsVars, crashed, apiVars, cbVars, codecVars>>

\* Faulty variant of handleOpAuthCheck: the code of the response is not looked at
handleOpAuthCheck_AnyCode(st, m) ==
    LET rsp == UnmarshalAuthResponse(m.Body) IN
    IF st # websocketClientStateAuth THEN "errUnexpectedState"
    ELSE IF rsp.err THEN "errUnmarshal"
    ELSE ""

\* handleOpAuth, lines 430-439: what it returns, or "" when it goes on to
\* line 440
handleOpAuthCheck(st, m) ==
    LET rsp == UnmarshalAuthResponse(m.Body) IN
    IF st # websocketClientStateAuth THEN "errUnexpectedState"
    ELSE IF rsp.err THEN "errUnmarshal"
    ELSE IF rsp.Code # 0 THEN "errAuthCode"
    ELSE ""

\* Faulty variant of handleOpMsg: the cmd of the envelope is not looked at
handleOpMsg_AnyCmd(m, cb) ==
    LET d == GetData(m.Body) IN
    IF d.err THEN [err |-> "errUnmarshalDanmaku", dm |-> <<>>]
    ELSE [err |-> "nil", dm |-> IF cb THEN <<d.dm>> ELSE <<>>]

\* handleOpMsg, lines 451-466: what it returns and the events it hands to
\* c.onDanmaku (cb: the callback is not nil); any other cmd is a warning only
handleOpMsg(m, cb) ==
    IF GetCmd(m.Body) = CmdLiveOpenPlatformDm
    THEN LET d == GetData(m.Body) IN
         IF d.err THEN [err |-> "errUnmarshalDanmaku", dm |-> <<>>]
         ELSE [err |-> "nil", dm |-> IF cb THEN <<d.dm>> ELSE <<>>]
    ELSE [err |-> "nil", dm |-> <<>>]

\* handleOpHeartbeat
handleOpHeartbeat(m) == "nil"

\* eventLoop, lines 382-389: the handler table and the handler's first part
elDispatch(k) ==
    LET m == msg[E(k)] IN
    /\ pc[E(k)] = "el_disp"
    /\ ~crashed
    /\ CASE m.Operation = wsProtoOpAuthReply ->
              LET r == handleOpAuthCheck(ws[k].state, m) IN
              IF r = ""
              THEN /\ Goto(E(k), "ha_set")
                   /\ UNCHANGED <<ret, msg, danmaku>>
              ELSE /\ Goto(E(k), "el_enter")
                   /\ SetRet(E(k), "handleOpAuth", r)
                   /\ msg' = [msg EXCEPT ![E(k)] = NoMsg]
                   /\ UNCHANGED danmaku
         [] m.Operation = wsProtoOpHeartbeatReply ->
              /\ Goto(E(k), "el_enter")
              /\ SetRet(E(k), "handleOpHeartbeat", handleOpHeartbeat(m))
              /\ msg' = [msg EXCEPT ![E(k)] = NoMsg]
              /\ UNCHANGED danmaku
         [] m.Operation = wsProtoOpSendMsgReply ->
              LET r == handleOpMsg(m, ws[k].onDanmaku) IN
              /\ Goto(E(k), "el_enter")
              /\ SetRet(E(k), "handleOpMsg", r.err)
              /\ danmaku' = [danmaku EXCEPT ![k] = @ \o r.dm]
              /\ msg' = [msg EXCEPT ![E(k)] = NoMsg]
         [] OTHER ->
              /\ Goto(E(k), "el_enter")
              /\ SetRet(E(k), "", "noHandler")
              /\ msg' = [msg EXCEPT ![E(k)] = NoMsg]
              /\ UNCHANGED danmaku
    /\ order' = IF order.on
                THEN [order EXCEPT !.handled[k] = Append(@, m.SequenceID)]
                ELSE order
    /\ UNCHANGED <<stk, myseq, facadeVars, wsVars, crashed, apiVars, userClose,
                   codecVars>>

\* handleOpAuth, lines 440-442: c.state = Active
handleOpAuth(k) ==
    /\ pc[E(k)] = "ha_set"
    /\ ~crashed
    /\ ws' = [ws EXCEPT ![k].state = websocketClientStateActive]
    /\ SetRet(E(k), "handleOpAuth", "nil")
    /\ msg' = [msg EXCEPT ![E(k)] = NoMsg]
    /\ Goto(E(k), "el_enter")
    /\ UNCHANGED <<stk, myseq, facadeVars, tr, sent, notifs, crashed, apiVars, cbVars, codecVars>>

----------------------------------------------------------------------------
(* LiveClient *)

\* Faulty variant of lockFree: Lock never waits
lockFree_Always(m) == TRUE

\* c.mu.Lock(), lines 74 and 130: it returns once nobody holds the mutex
lockFree(m) == m = None

\* Faulty variant of connectNotIdle: Connect goes on whatever the state
connectNotIdle_Never(st) == FALSE

\* Connect, line 76: if c.clientState != clientStateIdle
connectNotIdle(st) == st # clientStateIdle

\* IsActive, line 153
IsActive == clientState = clientStateActive

\* callAppEnd, lines 202-207, called from Disconnect, line 136: whether the
\* request goes out to the bootstrap service
callAppEndSends(st, gid) == st = clientStateActive /\ gid # ""

\* a caller invokes Connect
CallConnect(u) ==
    /\ pc[u] = "idle"
    /\ ~crashed
    /\ Goto(u, "Con_lock")
    /\ ret' = [ret EXCEPT ![u] = NoRet]
    /\ startCalled' = FALSE
    /\ UNCHANGED <<stk, myseq, msg, facadeVars, wsVars, crashed,
                   svc, gameID, wsInfo, appEnd, cbVars, codecVars>>

\* Connect, lines 74-88: the lock, the state check, callAppStart (lines
\* 186-198: the bootstrap service lets it succeed or fail, and grants
\* svc.sessions sessions; c.gameID and c.wsInfo are its answer),
\* c.clientState = Active
Connect(u) ==
    /\ pc[u] = "Con_lock"
    /\ ~crashed
    /\ lockFree(mu)
    /\ IF connectNotIdle(clientState)
       THEN /\ SetRet(u, "Connect", "errNotIdle")
            /\ Goto(u, "idle")
            /\ UNCHANGED <<mu, clientState, gameID, wsInfo, startCalled>>
       ELSE \E started \in (IF nConns < svc.sessions
                             THEN BOOLEAN ELSE {FALSE}) :
              /\ startCalled' = TRUE
              /\ IF ~started
                 THEN /\ SetRet(u, "Connect", "errAppStart")
                      /\ Goto(u, "idle")
                      /\ UNCHANGED <<mu, clientState, gameID, wsInfo>>
                 ELSE /\ mu' = u
                      /\ gameID' = svc.GameID
                      /\ wsInfo' = svc.WSSLink
                      /\ clientState' = clientStateActive
                      /\ Goto(u, "cws")
                      /\ UNCHANGED ret
    /\ UNCHANGED <<stk, myseq, msg, wsClient, nConns, wsVars, crashed,
                   svc, appEnd, cbVars, codecVars>>

\* connectWs, lines 98-110: close a connection still owned, construct the new
\* one for c.wsInfo.WSSLink[0] (an index out of range when the service
\* returned no link) and call its connect
connectWs(u) ==
    /\ pc[u] \in {"cws", "cws_new"}
    /\ ~crashed
    /\ IF pc[u] = "cws" /\ wsClient # 0
       THEN /\ Push(u, Frame(wsClient, "nil", "cws_new"))
            /\ Goto(u, "cl_chk")
            /\ UNCHANGED <<wsClient, nConns, ws, crashed>>
       ELSE IF wsInfo = <<>>
       THEN /\ crashed' = TRUE
            /\ UNCHANGED <<pc, stk, wsClient, nConns, ws>>
       ELSE /\ nConns' = nConns + 1
            /\ wsClient' = nConns + 1
            /\ ws' = [ws EXCEPT ![nConns + 1] =
                                 NewWsClient("onWsClose", wsInfo[1])]
            /\ Push(u, Frame(nConns + 1, "nil", "Con_ret"))
            /\ Goto(u, "co_chk")
            /\ UNCHANGED crashed
    /\ UNCHANGED <<locVars, mu, clientState, tr, sent, notifs,
                   apiVars, cbVars, codecVars>>

\* Connect, lines 90-93 and the deferred Unlock: the result of connect is the
\* result of Connect
ConnectReturn(u) ==
    /\ pc[u] = "Con_ret"
    /\ ~crashed
    /\ mu' = None
    /\ Goto(u, "idle")
    /\ UNCHANGED <<stk, locVars, clientState, wsClient, nConns, wsVars, crashed, apiVars, cbVars, codecVars>>

\* a caller invokes Disconnect
CallDisconnect(u) ==
    /\ pc[u] = "idle"
    /\ ~crashed
    /\ Push(u, Frame(0, "nil", "idle"))
    /\ Goto(u, "Disc_lock")
    /\ ret' = [ret EXCEPT ![u] = NoRet]
    /\ UNCHANGED <<myseq, msg, facadeVars, wsVars, crashed,
                   apiVars, cbVars, codecVars>>

\* Disconnect, lines 130-144: c.mu.Lock() (sync.Mutex: the holder itself
\* waits too), callAppEnd when Active (its failure is logged only), then Close
\* of the owned connection (its failure is logged only); without one, the
\* deferred functions run at once
Disconnect(t) ==
    /\ pc[t] = "Disc_lock"
    /\ ~crashed
    /\ lockFree(mu)
    /\ appEnd' = IF callAppEndSends(clientState, gameID)
                 THEN appEnd + 1 ELSE appEnd
    /\ IF wsClient # 0
       THEN /\ mu' = t
            /\ Push(t, Frame(wsClient, "nil", "Disc_fin"))
            /\ Goto(t, "cl_chk")
            /\ UNCHANGED <<clientState, ret>>
       ELSE /\ clientState' = clientStateIdle
            /\ SetRet(t, "Disconnect", "nil")
            /\ Return(t)
            /\ UNCHANGED mu
    /\ UNCHANGED <<myseq, msg, wsClient, nConns, wsVars, crashed,
                   svc, gameID, wsInfo, startCalled, cbVars, codecVars>>

\* Disconnect, the deferred functions after Close returned: c.wsClient = nil,
\* c.clientState = Idle, Unlock; return nil
DisconnectReturn(t) ==
    /\ pc[t] = "Disc_fin"
    /\ ~crashed
    /\ wsClient' = 0
    /\ clientState' = clientStateIdle
    /\ mu' = None
    /\ SetRet(t, "Disconnect", "nil")
    /\ Return(t)
    /\ UNCHANGED <<myseq, msg, nConns, wsVars, crashed, apiVars, cbVars, codecVars>>

\* onWsClose, lines 123-125, after Disconnect returned: the user's OnClose
\* with the error of the connection, then back through internalClose to
\* whoever called it
onWsClose(t) ==
    /\ pc[t] = "owc_cb"
    /\ ~crashed
    /\ userClose' = Append(userClose, Top(t).err)
    /\ SetRet(t, "internalClose", Top(t).err)
    /\ Return(t)
    /\ UNCHANGED <<myseq, msg, facadeVars, wsVars, crashed, apiVars, danmaku,
                   order, codecVars>>

----------------------------------------------------------------------------
(* A connection driven directly, as code of the package can: connect and    *)
(* Close on one liveWebsocketClient whose onClose only records the reason.  *)

\* where the driver stands between calls: how many Close calls it has made
\* on the connection since connect succeeded (none, one, two or more)
AtRest == {"idle", "closed1", "closed2"}
AfterClose(l, connected) ==
    IF ~connected THEN l
    ELSE IF l = "idle" THEN "closed1" ELSE "closed2"

WsCallConnect(u) ==
    /\ pc[u] \in AtRest
    /\ ~crashed
    /\ Push(u, Frame(1, "nil", pc[u]))
    /\ Goto(u, "co_chk")
    /\ ret' = [ret EXCEPT ![u] = NoRet]
    /\ UNCHANGED <<myseq, msg, facadeVars, wsVars, crashed,
                   apiVars, cbVars, codecVars>>

WsCallClose(u) ==
    /\ pc[u] \in AtRest
    /\ ~crashed
    /\ Push(u, Frame(1, "nil", AfterClose(pc[u], ws[1].spawned)))
    /\ Goto(u, "cl_chk")
    /\ ret' = [ret EXCEPT ![u] = NoRet]
    /\ UNCHANGED <<myseq, msg, facadeVars, wsVars, crashed,
                   apiVars, cbVars, codecVars>>

----------------------------------------------------------------------------
(* Specifications *)

CodecIdle ==
    /\ cstage = "off"
    /\ cin = <<>>
    /\ cout = <<>>

\* nothing read, nothing handled; recording as told
NoOrder(recording) ==
    [on |-> recording, n |-> [o \in Conns |-> 0],
     rcvd |-> [o \in Conns |-> <<>>], handled |-> [o \in Conns |-> <<>>]]

ConnInit ==
    /\ pc = [t \in Threads |-> IF t \in Callers THEN "idle" ELSE "off"]
    /\ stk = [t \in Threads |-> <<>>]
    /\ ret = [t \in Threads |-> NoRet]
    /\ myseq = [t \in Threads |-> 0]
    /\ msg = [t \in Threads |-> NoMsg]
    /\ mu = None
    /\ clientState = clientStateIdle
    /\ wsClient = 0
    /\ tr = [o \in Conns |-> "none"]
    /\ sent = [o \in Conns |-> <<>>]
    /\ notifs = [o \in Conns |-> <<>>]
    /\ crashed = FALSE
    /\ gameID = ""
    /\ wsInfo = <<>>
    /\ startCalled = FALSE
    /\ appEnd = 0
    /\ userClose = <<>>
    /\ danmaku = [o \in Conns |-> <<>>]

\* a LiveClient as its user constructs it: idle, no connection yet
Init ==
    /\ ConnInit
    /\ nConns = 0
    /\ ws = [o \in Conns |-> NewWsClient("onWsClose", "")]
    /\ svc = [sessions |-> 1, GameID |-> "G1", WSSLink |-> <<"wss1", "wss2">>]
    /\ order = NoOrder(FALSE)
    /\ CodecIdle

\* the steps every connection takes, whoever owns it, while the peer sends
\* no frame and the timer does not tick
QuietStep ==
    \/ \E t \in Callers : connect(t) \/ sendAuth(t)
    \/ \E t \in Senders : createMsg(t) \/ writeMsg(t)
    \/ \E t \in Closers :
          \/ Close(t) \/ connClose(t)
          \/ icCheckCancel(t) \/ icCancel(t) \/ icCheckTicker(t)
          \/ icStopTicker(t) \/ icReset(t) \/ icNotify(t)
    \/ \E k \in Conns :
          \/ rlCheck(k) \/ rlReadNil(k) \/ rlClosed(k) \/ rlReadErr(k)
          \/ PeerClose(k) \/ Break(k)
          \/ elEnter(k) \/ elDone(k)

\* the steps every connection takes, whoever owns it
WsStep ==
    \/ QuietStep
    \/ \E k \in Conns :
          \/ rlRead(k)
          \/ elTick(k) \/ elRecv(k) \/ elDispatch(k) \/ handleOpAuth(k)

FacadeStep ==
    \/ \E u \in Callers :
          \/ CallConnect(u) \/ Connect(u) \/ connectWs(u) \/ ConnectReturn(u)
          \/ CallDisconnect(u)
    \/ \E t \in Closers : Disconnect(t) \/ DisconnectReturn(t) \/ onWsClose(t)

Next == FacadeStep \/ WsStep

Spec == Init /\ [][Next]_vars

\* one liveWebsocketClient with a recording onClose, no LiveClient
WsInit ==
    /\ ConnInit
    /\ nConns = 1
    /\ ws = [o \in Conns |-> NewWsClient("record", "wss1")]
    /\ svc = [sessions |-> 0, GameID |-> "", WSSLink |-> <<>>]
    /\ order = NoOrder(FALSE)
    /\ CodecIdle

WsNext == WsStep \/ \E u \in Callers : WsCallConnect(u) \/ WsCallClose(u)

WsSpec == WsInit /\ [][WsNext]_vars

\* the steps of the program, as opposed to those of its surroundings (a call
\* by the user, a frame or a close from the peer, a tick of the timer): the Go
\* scheduler runs every goroutine that can take a step
Run(t) ==
    \/ /\ t \in Callers
       /\ connect(t) \/ sendAuth(t) \/ Connect(t) \/ connectWs(t)
             \/ ConnectReturn(t)
    \/ /\ t \in Senders
       /\ createMsg(t) \/ writeMsg(t)
    \/ /\ t \in Closers
       /\ \/ Close(t) \/ connClose(t)
          \/ icCheckCancel(t) \/ icCancel(t) \/ icCheckTicker(t)
          \/ icStopTicker(t) \/ icReset(t) \/ icNotify(t)
          \/ Disconnect(t) \/ DisconnectReturn(t) \/ onWsClose(t)
    \/ \E k \in Conns :
          \/ /\ t = R(k)
             /\ rlCheck(k) \/ rlReadNil(k) \/ rlClosed(k) \/ rlReadErr(k)
          \/ /\ t = E(k)
             /\ elEnter(k) \/ elDone(k) \/ elRecv(k) \/ elDispatch(k)
                   \/ handleOpAuth(k)

\* the LiveClient with every goroutine scheduled fairly
FairSpec == Init /\ [][Next]_vars /\ \A t \in Threads : WF_vars(Run(t))

\* one liveWebsocketClient in front of a peer that numbers its frames and may
\* close the transport; the order of the frames is recorded
OrderInit ==
    /\ ConnInit
    /\ nConns = 1
    /\ ws = [o \in Conns |-> NewWsClient("record", "wss1")]
    /\ svc = [sessions |-> 0, GameID |-> "", WSSLink |-> <<>>]
    /\ order = NoOrder(TRUE)
    /\ CodecIdle

OrderNext ==
    \/ \E u \in Callers : WsCallConnect(u) \/ connect(u) \/ sendAuth(u)
    \/ \E t \in Senders : createMsg(t) \/ writeMsg(t)
    \/ \E t \in Closers :
          \/ icCheckCancel(t) \/ icCancel(t) \/ icCheckTicker(t)
          \/ icStopTicker(t) \/ icReset(t) \/ icNotify(t)
    \/ \E k \in Conns :
          \/ rlCheck(k) \/ rlClosed(k) \/ rlRead(k) \/ PeerClose(k)
          \/ elEnter(k) \/ elDone(k) \/ elRecv(k) \/ elDispatch(k)
          \/ handleOpAuth(k)

OrderSpec == OrderInit /\ [][OrderNext]_vars

\* one liveWebsocketClient with a recording onClose, every goroutine scheduled
\* fairly
WsFairSpec == WsInit /\ [][WsNext]_vars /\ \A t \in Threads : WF_vars(Run(t))

\* what the bootstrap service may answer to a session start: a game ID or
\* none, and the links of the streaming endpoint
Answers ==
    [sessions : {2}, GameID : {"", "G1"},
     WSSLink : {<<>>, <<"wss1">>, <<"wss1", "wss2">>}]

\* a LiveClient whose bootstrap service grants a second session, with any
\* answer, in front of a peer that sends no frame
ApiInit ==
    /\ ConnInit
    /\ nConns = 0
    /\ ws = [o \in Conns |-> NewWsClient("onWsClose", "")]
    /\ svc \in Answers
    /\ order = NoOrder(FALSE)
    /\ CodecIdle

ApiNext == FacadeStep \/ QuietStep

ApiSpec == ApiInit /\ [][ApiNext]_vars /\ \A t \in Threads : WF_vars(Run(t))

\* the LiveClient of Init in front of a peer that sends no frame
QuietSpec == Init /\ [][ApiNext]_vars /\ \A t \in Threads : WF_vars(Run(t))

----------------------------------------------------------------------------
(* The codec on its own: writeWsProtoMsg and parseWsProtoMsg applied to     *)
(* frames and buffers of every shape.                                       *)

\* n bytes of body, told apart by seed
BodyOf(n, seed) == [i \in 1 .. n |-> (7 * i + seed) % 256]

CodecVersions == {0, 1, -1, 32767, -32768}
CodecOperations == {wsProtoOpHeartbeat, wsProtoOpAuthReply, -1, MaxInt32}
CodecSequenceIDs == {0, 1, -1, MaxInt32, MinInt32}
CodecBodyLens ==
    {0, 1, 2, wsProtoMaxBodySize - 1, wsProtoMaxBodySize, wsProtoMaxBodySize + 1}

CodecFrames ==
    { WsProtoMsg(v, op, sq, BodyOf(n, sq % 256)) :
        v \in CodecVersions, op \in CodecOperations, sq \in CodecSequenceIDs,
        n \in CodecBodyLens }

\* a buffer of n bytes that starts like a frame declaring packet length ps and
\* header length hl
RawBuf(ps, hl, n) ==
    LET full == PutBE32(ps) \o PutBE16(hl) \o PutBE16(0)
                    \o PutBE32(wsProtoOpSendMsgReply) \o PutBE32(0)
                    \o BodyOf(IF n > wsProtoRawHeaderSize
                              THEN n - wsProtoRawHeaderSize ELSE 0, 1)
    IN  SubSeq(full, 1, n)

CodecPackSizes ==
    {MinInt32, -1, 0, wsProtoRawHeaderSize - 1, wsProtoRawHeaderSize,
     wsProtoRawHeaderSize + 1, 20, 100, wsProtoMaxPackSize,
     wsProtoMaxPackSize + 1, MaxInt32}
CodecHeaderLens == {wsProtoRawHeaderSize, 0, 12, 17, -16}
CodecBufLens ==
    {0, 3, 6, 10, wsProtoRawHeaderSize - 1, wsProtoRawHeaderSize,
     wsProtoRawHeaderSize + 1, 20, 100, wsProtoMaxPackSize,
     wsProtoMaxPackSize + 6}

CodecBufs ==
    { RawBuf(ps, hl, n) :
        ps \in CodecPackSizes, hl \in CodecHeaderLens, n \in CodecBufLens }

CodecInit ==
    /\ ConnInit
    /\ nConns = 0
    /\ ws = [o \in Conns |-> NewWsClient("record", "")]
    /\ svc = [sessions |-> 0, GameID |-> "", WSSLink |-> <<>>]
    /\ order = NoOrder(FALSE)
    /\ cout = <<>>
    /\ \/ cstage = "frame" /\ cin \in CodecFrames
       \/ cstage = "buf" /\ cin \in CodecBufs

\* writeWsProtoMsg(w, p): cout is what w received
Encode ==
    /\ cstage = "frame"
    /\ cout' = writeWsProtoMsg(cin)
    /\ cstage' = "encoded"
    /\ UNCHANGED <<cin, connVars>>

\* parseWsProtoMsg of the bytes just written
DecodeEncoded ==
    /\ cstage = "encoded"
    /\ cout' = parseWsProtoMsg(cout)
    /\ cstage' = "decoded"
    /\ UNCHANGED <<cin, connVars>>

\* parseWsProtoMsg(buf)
Decode ==
    /\ cstage = "buf"
    /\ cout' = parseWsProtoMsg(cin)
    /\ cstage' = "parsed"
    /\ UNCHANGED <<cin, connVars>>

CodecNext == Encode \/ DecodeEncoded \/ Decode

CodecSpec == CodecInit /\ [][CodecNext]_vars

----------------------------------------------------------------------------
(* Properties of the codec (under CodecSpec) *)

\* the fields of a decoded frame are those of the frame p
SameFrame(q, p) ==
    /\ q.Operation = p.Operation
    /\ q.Version = p.Version
    /\ q.SequenceID = p.SequenceID
    /\ Len(q.Body) = Len(p.Body)
    /\ \A i \in 1 .. Len(p.Body) : q.Body[i] = p.Body[i]

\* C9 as stated: for every frame whose body length is between 0 and 2048,
\* decoding the encoded bytes succeeds and reproduces operation, version,
\* sequenceID and body.
C9_RoundTripFromZero ==
    (cstage = "decoded" /\ Len(cin.Body) \in 0 .. wsProtoMaxBodySize)
        => (cout.status = "ok" /\ SameFrame(cout.p, cin))

\* C9 amended: for every frame whose body length is between 1 and 2048,
\* decoding the encoded bytes succeeds and reproduces operation, version,
\* sequenceID and body; the 16 bytes of a frame with an empty body, and the
\* bytes of a frame with a longer body, are rejected.
C9_RoundTrip ==
    cstage = "decoded" =>
        IF Len(cin.Body) \in 1 .. wsProtoMaxBodySize
        THEN cout.status = "ok" /\ SameFrame(cout.p, cin)
        ELSE cout.status = "err"

\* a frame with a body of the maximum size, a negative version and a negative
\* sequenceID has gone through encode and decode
C9_Witness ==
    /\ cstage = "decoded"
    /\ Len(cin.Body) = wsProtoMaxBodySize
    /\ cin.Version < 0
    /\ cin.SequenceID = MinInt32
    /\ cout.status = "ok"

\* the packet length and header length fields of a buffer that has them
DeclaredPackSize(buf) == Int32BE(SubSeq(buf, 1, 4))
DeclaredHeaderLength(buf) == Int16BE(SubSeq(buf, 5, 6))

\* the conditions under which C10 says decode fails
Malformed(buf) ==
    \/ DeclaredPackSize(buf) < 0
    \/ DeclaredPackSize(buf) > wsProtoMaxBodySize + 16
    \/ Len(buf) < DeclaredPackSize(buf)
    \/ DeclaredHeaderLength(buf) # 16
    \/ DeclaredPackSize(buf) - DeclaredHeaderLength(buf) <= 0

\* C10 as stated: decode fails with a malformed-frame error whenever the
\* declared packet length is negative or above 2048 + 16, the buffer is shorter
\* than the declared packet length, the header length field is not 16, or
\* packet length minus header length is <= 0; otherwise it succeeds with
\* body = buffer[16 .. packetLength).  (Buffers too short to hold the two
\* length fields are left out.)
C10_DecodeRejectsMalformed ==
    (cstage = "parsed" /\ Len(cin) >= 6) =>
        IF Malformed(cin)
        THEN cout.status = "err"
        ELSE /\ cout.status = "ok"
             /\ cout.p.Body = SubSeq(cin, 17, DeclaredPackSize(cin))

----------------------------------------------------------------------------
(* Properties of the connection and the facade *)

\* thread u is inside a Disconnect its user invoked
InDisconnect(u) ==
    /\ pc[u] # "idle"
    /\ stk[u] # <<>>
    /\ stk[u][Len(stk[u])].ret = "idle"

\* C1 as stated: every call to Disconnect eventually returns (a panic of the
\* process aside), and when it returns the facade is idle and owns no
\* connection.
C1_DisconnectReturns ==
    /\ \A u \in Callers : InDisconnect(u) ~> (pc[u] = "idle" \/ crashed)
    /\ [][\A u \in Callers :
            (InDisconnect(u) /\ pc'[u] = "idle")
                => (clientState' = clientStateIdle /\ wsClient' = 0)]_vars

\* some goroutine is inside Close or internalClose of connection o
TearingDown(o) ==
    \E t \in Closers :
        /\ pc[t] \in {"cl_chk", "cl_conn", "ic1", "ic1b", "ic2", "ic2b", "ic3", "ic4"}
        /\ Top(t).obj = o

\* C2 as stated: once Close has been called twice on a connection that had
\* been connected, and no teardown is still running, the onClose handler has
\* been invoked exactly once.
C2_CloseTwiceNotifiesOnce ==
    \A o \in Conns :
        (/\ pc[Caller] = "closed2"
         /\ ws[o].spawned
         /\ ~ws[o].conn
         /\ ~TearingDown(o))
            => Len(notifs[o]) = 1

\* the read loop of k has left through internalClose after the peer closed
ReadLoopTornDown(k) ==
    /\ tr[k] = "peerClosed"
    /\ pc[R(k)] = "exit"
    /\ ret[R(k)].of = "internalClose"

\* C3 as stated: when the peer closed the transport and the read loop has
\* exited through the teardown, the dispatch loop's context is cancelled, the
\* heartbeat timer is stopped, and the close notification fired exactly once,
\* with the transport's error.
C3_TransportCloseNotifiesOnce ==
    \A k \in Conns :
        ReadLoopTornDown(k)
            => /\ ws[k].ctx = "cancelled"
               /\ ws[k].ticker = "nil"
               /\ notifs[k] = <<"closeErr">>

\* the response code the dispatch loop of k decodes from the frame it holds
DecodedOk(k) ==
    LET rsp == UnmarshalAuthResponse(msg[E(k)].Body) IN
    ~rsp.err /\ rsp.Code = 0

\* C4: an AUTH_ACK handled while the state is Auth moves the connection to
\* Active exactly when the decoded code is 0; with a nonzero code or a body
\* that does not decode, the handler fails and the state stays as it is.  The
\* state becomes Active in no other way.
C4_AuthAckActivatesIffCodeZero ==
    [][\A k \in Conns :
         /\ (/\ pc[E(k)] = "el_disp"
             /\ pc'[E(k)] # "el_disp"
             /\ msg[E(k)].Operation = wsProtoOpAuthReply
             /\ ws[k].state = websocketClientStateAuth)
                => IF DecodedOk(k)
                   THEN pc'[E(k)] = "ha_set"
                   ELSE /\ ws'[k].state = websocketClientStateAuth
                        /\ pc'[E(k)] = "el_enter"
                        /\ ret'[E(k)].of = "handleOpAuth"
                        /\ ret'[E(k)].err \in {"errAuthCode", "errUnmarshal"}
         /\ (pc[E(k)] = "ha_set" /\ pc'[E(k)] # "ha_set")
                => ws'[k].state = websocketClientStateActive
         /\ (/\ ws[k].state # websocketClientStateActive
             /\ ws'[k].state = websocketClientStateActive)
                => /\ pc[E(k)] = "ha_set"
                   /\ msg[E(k)].Operation = wsProtoOpAuthReply
                   /\ DecodedOk(k)
      ]_vars

\* an AUTH_ACK with code 0 has made the connection Active
C4_Witness ==
    \E k \in Conns :
        /\ ws[k].state = websocketClientStateActive
        /\ ret[E(k)] = Ret("handleOpAuth", "nil")

\* C5 as stated: an AUTH_ACK with a nonzero code received in state Auth leads
\* to the teardown of the connection and to one notification of the owner,
\* with the authentication error.
C5_AuthRejectionTearsDown ==
    \A k \in Conns :
        (ret[E(k)] = Ret("handleOpAuth", "errAuthCode"))
            ~> (\/ crashed
                \/ /\ ws[k].state = websocketClientStateIdle
                   /\ ~ws[k].conn
                   /\ notifs[k] = <<"errAuthCode">>)

\* the last frame of a sequence of frames
LastOf(q) == q[Len(q)]

\* C6: a HEARTBEAT frame is written only while the state is Active; a tick
\* in state Idle or Auth writes nothing, leaves c.seqID alone and returns nil.
C6_HeartbeatOnlyWhenActive ==
    [][\A k \in Conns :
         /\ (/\ Len(sent'[k]) > Len(sent[k])
             /\ LastOf(sent'[k]).op = wsProtoOpHeartbeat)
                => ws[k].state = websocketClientStateActive
         /\ (/\ pc[E(k)] = "el_wait"
             /\ pc'[E(k)] \in {"el_enter", "hb_inc"}
             /\ ws[k].state # websocketClientStateActive)
                => /\ pc'[E(k)] = "el_enter"
                   /\ ret'[E(k)] = Ret("sendHeartbeat", "nil")
                   /\ ws'[k].seqID = ws[k].seqID
                   /\ sent'[k] = sent[k]
      ]_vars

\* a tick came while the connection was waiting for the AUTH_ACK, after the
\* AUTH frame had gone out, and was skipped
C6_Witness ==
    \E k \in Conns :
        /\ pc[E(k)] = "el_enter"
        /\ ret[E(k)] = Ret("sendHeartbeat", "nil")
        /\ ws[k].state = websocketClientStateAuth
        /\ Len(sent[k]) = 1

\* C7 as stated: the sequence IDs of the frames written on a connection are
\* 0, 1, 2, ... in the order they were written.
C7_SequenceIDsCount ==
    \A k \in Conns :
        \A i \in 1 .. Len(sent[k]) : sent[k][i].seq = i - 1

\* C8: connect on a connection whose state is not Idle returns the state
\* error at once and touches nothing: state, transport, sequence counter,
\* loops and timer stay as they are and nothing is notified.
C8_ConnectRefusedWhenNotIdle ==
    [][\A t \in Callers :
         (/\ pc[t] = "co_chk"
          /\ pc'[t] # "co_chk"
          /\ ws[Top(t).obj].state # websocketClientStateIdle)
             => /\ ret'[t] = Ret("connect", "errState")
                /\ pc'[t] = Top(t).ret
                /\ UNCHANGED <<ws, tr, sent, notifs, crashed>>
                /\ \A k \in Conns : /\ pc'[R(k)] = pc[R(k)]
                                    /\ pc'[E(k)] = pc[E(k)]
      ]_vars

\* connect was refused on a connection that is Active and has sent frames
C8_Witness ==
    \E t \in Callers :
        /\ ret[t] = Ret("connect", "errState")
        /\ pc[t] \in AtRest
        /\ ws[1].state = websocketClientStateActive
        /\ Len(sent[1]) >= 2

----------------------------------------------------------------------------
(* Properties of the dispatch of MESSAGE_ACK frames (under Spec) *)

\* the text of the chat envelope the peer sends, and the event in it
ChatEvent == Danmaku(123, "alice", "hello")

----------------------------------------------------------------------------
(* Properties of the facade (under ApiSpec, Spec and FairSpec) *)

\* C12: Connect on a client that is not idle fails without calling the
\* bootstrap service and without replacing or closing the connection the
\* client owns.  Connect on an idle client whose session bootstrap and
\* transport succeed returns success, and the client then owns a connection
\* dialled to the first endpoint the bootstrap service returned.
C12_ConnectOnlyWhenIdle ==
    [][\A u \in Callers :
         /\ (/\ pc[u] = "Con_lock"
             /\ pc'[u] # "Con_lock"
             /\ clientState # clientStateIdle)
                => /\ ret'[u] = Ret("Connect", "errNotIdle")
                   /\ pc'[u] = "idle"
                   /\ ~startCalled'
                   /\ UNCHANGED <<clientState, wsClient, nConns, ws, tr, notifs,
                                  gameID, wsInfo, appEnd>>
         /\ (/\ pc[u] = "Con_lock"
             /\ pc'[u] # "Con_lock"
             /\ clientState = clientStateIdle)
                => /\ startCalled'
                   /\ \/ ret'[u] = Ret("Connect", "errAppStart")
                      \/ pc'[u] = "cws" /\ clientState' = clientStateActive
         /\ (/\ pc[u] = "Con_ret"
             /\ pc'[u] # "Con_ret"
             /\ ret[u] = Ret("connect", "nil"))
                => /\ pc'[u] = "idle"
                   /\ ret'[u] = Ret("connect", "nil")
                   /\ wsClient' = nConns
                   /\ wsClient' # 0
                   /\ ws'[wsClient'].spawned
                   /\ ws'[wsClient'].url = svc.WSSLink[1]
      ]_vars

\* a second Connect was refused on a client that owns a connection dialled to
\* the first of two endpoints
C12_Witness ==
    \E u \in Callers :
        /\ pc[u] = "idle"
        /\ ret[u] = Ret("Connect", "errNotIdle")
        /\ wsClient # 0
        /\ ws[wsClient].conn
        /\ ws[wsClient].url = "wss1"
        /\ svc.WSSLink = <<"wss1", "wss2">>

\* C13 as stated: Disconnect asks the bootstrap service to end the session
\* only if one was started (a Disconnect on an idle client makes no
\* session-end call), returns no error whatever the session-end call and the
\* close of the transport did, and in all cases the facade ends idle (a panic
\* of the process aside).
C13_DisconnectBestEffort ==
    /\ [][\A t \in Closers :
            /\ (pc[t] = "Disc_lock" /\ pc'[t] # "Disc_lock")
                  => /\ (appEnd' # appEnd)
                            => (clientState = clientStateActive /\ appEnd' = appEnd + 1)
                     /\ (clientState = clientStateIdle) => (appEnd' = appEnd)
            /\ (/\ pc[t] \in {"Disc_lock", "Disc_fin"}
                /\ pc'[t] \notin {"Disc_lock", "Disc_fin", "cl_chk"}
                /\ ~crashed')
                  => /\ ret'[t] = Ret("Disconnect", "nil")
                     /\ clientState' = clientStateIdle
       ]_vars
    /\ \A t \in Closers :
          (pc[t] = "Disc_lock") ~> (crashed \/ clientState = clientStateIdle)

\* C14 as stated: whenever the user observes the client between two calls,
\* IsActive() is true exactly when the facade owns a connection whose state
\* is Active; it is false while the owned connection is in state Auth or Idle
\* and when no connection is owned.
C14_IsActiveIffConnectionActive ==
    (pc[Caller] = "idle" /\ ~crashed)
        => (IsActive <=> (/\ wsClient # 0
                          /\ ws[wsClient].state = websocketClientStateActive))

\* goroutine t is inside the state transition of Connect (after line 78) or of
\* Disconnect (after line 130): the part that runs with the lock taken
InTransition(t) ==
    \/ pc[t] \in {"cws", "cws_new", "Con_ret", "Disc_fin"}
    \/ \E i \in 1 .. Len(stk[t]) : stk[t][i].ret \in {"cws_new", "Con_ret", "Disc_fin"}

\* goroutine t waits in c.mu.Lock() of Connect or Disconnect
AtLock(t) == pc[t] \in {"Con_lock", "Disc_lock"}

\* C15: Connect and Disconnect on one LiveClient exclude each other: at most
\* one goroutine (a user's call or the Disconnect of the close handler) is
\* inside its state transition at a time, and it is the holder of the lock;
\* a goroutine waiting for the lock goes on unless the lock is held for ever.
C15_ConnectDisconnectExclusive ==
    /\ [](/\ Cardinality({t \in Threads : InTransition(t)}) <= 1
          /\ \A t \in Threads : InTransition(t) => mu = t)
    /\ \A t \in Closers :
          [](AtLock(t) => <>(~AtLock(t) \/ crashed \/ [](mu # None)))

\* the read loop's Disconnect waits for the lock a user's Connect holds
C15_Witness ==
    /\ pc[R(1)] = "Disc_lock"
    /\ InTransition(Caller)
    /\ mu = Caller
    /\ pc[Caller] \in {"co_chk", "sa_chk", "sa_inc", "sa_wr", "Con_ret"}

\* the read loop of connection k starts the teardown after the peer closed the
\* transport, while the facade is connected to k and its user is between calls
TransportTeardown(k) ==
    /\ pc[R(k)] = "ic1"
    /\ Top(R(k)).err = "closeErr"
    /\ tr[k] = "peerClosed"
    /\ wsClient = k
    /\ clientState = clientStateActive
    /\ pc[Caller] = "idle"
    /\ ret[Caller] = Ret("connect", "nil")

\* C16 as stated: after a transport-initiated teardown of the connection a
\* connected facade owns, the session-end call has been made exactly once,
\* the facade is idle and the user's OnClose has been invoked exactly once,
\* with the error of the transport (a panic of the process aside).
C16_TransportTeardownEndsSession ==
    /\ [](appEnd <= 1 /\ Len(userClose) <= 1)
    /\ \A k \in Conns :
          TransportTeardown(k)
              ~> (\/ crashed
                  \/ /\ appEnd = 1
                     /\ clientState = clientStateIdle
                     /\ userClose = <<"closeErr">>)

----------------------------------------------------------------------------
(* Properties of the connection (under WsSpec and Spec) *)

\* C17 as stated: once a connection has been closed (internalClose has
\* released the transport handle) its state is Idle and stays Idle; a
\* connection object is not connected a second time here.
C17_ClosedStaysIdle ==
    \A k \in Conns :
        (ws[k].spawned /\ ~ws[k].conn)
            => ws[k].state = websocketClientStateIdle

\* C18 as stated: a bad frame never ends the connection.  A message that
\* parseWsProtoMsg does not decode is skipped by the read loop; a frame with an
\* operation code without handler, a handler that fails, and an AUTH_ACK
\* received in another state than Auth are skipped by the dispatch loop.  In
\* each case the process goes on, the state and the fields of the connection
\* are unchanged, nothing is notified and the loop is back at its start.
C18_BadFrameSkipped ==
    [][\A k \in Conns :
         /\ (/\ pc[R(k)] = "rl_read"
             /\ ret'[R(k)].of = "parseWsProtoMsg"
             /\ ret'[R(k)].err # "nil")
                => /\ ~crashed'
                   /\ pc'[R(k)] = "rl_chk"
                   /\ pc'[E(k)] = pc[E(k)]
                   /\ UNCHANGED <<ws, tr, notifs>>
         /\ (/\ pc[E(k)] = "el_disp"
             /\ pc'[E(k)] # "el_disp"
             /\ ret'[E(k)].err # "nil")
                => /\ ~crashed'
                   /\ pc'[E(k)] = "el_enter"
                   /\ pc'[R(k)] = pc[R(k)]
                   /\ UNCHANGED <<ws, tr, notifs>>
      ]_vars

\* connection k is torn down: both loops stopped, the timer stopped, the
\* transport released, the state Idle
TornDown(k) ==
    /\ ws[k].state = websocketClientStateIdle
    /\ ~ws[k].conn
    /\ ws[k].ticker = "nil"
    /\ ws[k].ctx = "cancelled"
    /\ pc[R(k)] = "exit"
    /\ pc[E(k)] = "exit"

\* connect() on connection k has returned the failure of the write of the
\* AUTH frame to the caller u
AuthWriteFailed(u, k) ==
    /\ ret[u] = Ret("connect", "errWrite")
    /\ pc[u] \in {"Con_ret", "idle"}
    /\ wsClient = k

\* C19 as stated: when the write of the AUTH frame fails inside connect(),
\* connect() reports the failure and the connection is torn down instead of
\* staying in state Auth with its loops running: at the latest when the
\* caller makes its next call (a panic of the process aside).
C19_AuthWriteFailureTearsDown ==
    \A u \in Callers : \A k \in Conns :
        AuthWriteFailed(u, k)
            ~> (crashed \/ TornDown(k) \/ pc[u] \notin {"Con_ret", "idle"})

\* the transport of connection k is open
TransportOpen(k) == tr[k] \in {"open", "broken"} /\ ws[k].conn

\* a loop of connection k is running
LoopsRunning(k) ==
    \/ pc[R(k)] \notin {"off", "exit"}
    \/ pc[E(k)] \notin {"off", "exit"}

\* C20 as stated: no two connections constructed by one LiveClient have open
\* transports or running loops at the same time.
C20_AtMostOneLiveConnection ==
    \A j \in Conns : \A k \in Conns :
        (j # k) => ~((TransportOpen(j) \/ LoopsRunning(j))
                       /\ (TransportOpen(k) \/ LoopsRunning(k)))

----------------------------------------------------------------------------
(* Properties of the teardown and of the loops (under WsSpec, Spec,         *)
(* FairSpec and ApiSpec)                                                    *)

\* C21 as stated: when the caller's Close closed the transport of a
\* connection, the close notification is invoked at most once for it, and
\* with the nil reason, whether or not the read loop sees the closure.
C21_CallerCloseNotifiesOnceWithNil ==
    \A o \in Conns :
        (tr[o] = "closed") => notifs[o] \in {<<>>, <<"nil">>}

\* connection k has been closed: internalClose has released its transport
Closed(k) == ws[k].spawned /\ ~ws[k].conn

\* C22 as stated: after a connection has been closed, by the caller or by the
\* transport, both its loops terminate (a panic of the process aside): the
\* dispatch loop on the cancellation, the read loop too, whatever it was
\* doing.
C22_LoopsTerminateAfterClose ==
    \A k \in Conns :
        Closed(k) ~> (crashed \/ (pc[R(k)] = "exit" /\ pc[E(k)] = "exit"))

\* q is the beginning of r
IsPrefix(q, r) ==
    /\ Len(q) <= Len(r)
    /\ \A i \in 1 .. Len(q) : q[i] = r[i]

\* C23: the frames the dispatch loop gives to the handlers are the frames the
\* read loop decoded, in the order it read them from the transport: none
\* before an earlier one, none twice, none that was not read.
C23_FramesHandledInReadOrder ==
    \A k \in Conns :
        /\ IsPrefix(order.handled[k], order.rcvd[k])
        /\ \A i \in 1 .. Len(order.rcvd[k]) :
             \A j \in 1 .. Len(order.rcvd[k]) :
                (i < j) => order.rcvd[k][i] < order.rcvd[k][j]

\* the peer sent three frames: the first did not decode, the other two were
\* read and handled in that order
C23_Witness ==
    /\ order.n[1] = MaxFrames
    /\ Len(order.rcvd[1]) = 2
    /\ order.handled[1] = order.rcvd[1]
    /\ order.rcvd[1][1] = 1

\* goroutine t is inside a send on connection k: between createMsg's read of
\* c.seqID and the end of writeMsg
Sending(t, k) ==
    IF t \in Callers
    THEN pc[t] \in {"sa_inc", "sa_wr"} /\ Top(t).obj = k
    ELSE t = E(k) /\ pc[t] \in {"hb_inc", "hb_wr"}

\* C24 as stated: the sends on one connection never overlap: while connect()
\* is sending the AUTH frame the dispatch loop is not sending a HEARTBEAT, in
\* the reading and incrementing of the sequence counter as in the writing.
C24_SendsNeverOverlap ==
    \A k \in Conns :
        \A s \in Senders : \A t \in Senders :
            (s # t) => ~(Sending(s, k) /\ Sending(t, k))

\* C25 as stated: parseWsProtoMsg never panics: for every buffer, those
\* shorter than the 16 bytes of a header and the empty one included, it
\* returns a frame or an error.
C25_DecodeNeverPanics ==
    (cstage = "parsed") => cout.status \in {"ok", "err"}

\* C26 as stated: no loop uses what the teardown has released: the dispatch
\* loop is never about to evaluate c.heartbeatTicker.C with the ticker nil,
\* the read loop never about to call c.conn.Read, nor the dispatch loop
\* c.conn.Writer, with the conn nil.
C26_NoUseAfterRelease ==
    \A k \in Conns :
        ws[k].spawned
            => /\ ~(pc[E(k)] = "el_enter" /\ ws[k].ticker = "nil")
               /\ ~(pc[R(k)] = "rl_read" /\ ~ws[k].conn)
               /\ ~(pc[E(k)] = "hb_wr" /\ ~ws[k].conn)

\* C27 as stated: when Connect returns an error, because the session
\* bootstrap failed or because the streaming connect failed after it, the
\* facade is idle: IsActive() is false and the next Connect is not refused
\* for the state.
C27_FailedConnectLeavesIdle ==
    [][\A u \in Callers :
         (/\ pc[u] \in {"Con_lock", "Con_ret"}
          /\ pc'[u] = "idle"
          /\ ret'[u].err \notin {"nil", "errNotIdle"})
             => /\ ~IsActive'
                /\ ~connectNotIdle(clientState')
      ]_vars

\* C28 as stated: once the close notification of a connection has been
\* invoked, no event is handed to the event callback for that connection.
C28_NoEventAfterCloseNotification ==
    [][\A k \in Conns :
         (notifs[k] # <<>>) => Len(danmaku'[k]) <= Len(danmaku[k])
      ]_vars

====
